---- MODULE Spec2Model ----
(***************************************************************************)
(* A model of random-password-please (src/main.go): the password           *)
(* generator and its buffered channel, the request handlers and the        *)
(* locked counter, the counter file (load at startup, periodic and         *)
(* shutdown flush) and the signal handler.                                 *)
(*                                                                         *)
(* Text (file contents, the len form value, passwords) is a string.        *)
(* Numbers that the program keeps in 64 bits are kept exact: the inputs    *)
(* are chosen so that every number the model computes stays far below      *)
(* 2^31, and the 64-bit range checks of the parsers are made on the        *)
(* digits.                                                                 *)
(***************************************************************************)
EXTENDS Integers, Sequences, FiniteSets, TLC

VARIABLES
    proc,        \* the process: "starting", "opened" (the counter file is open,
                 \* line 51), "loaded" (line 65 is passed), "serving", "aborted",
                 \* "exited", "killed"
    configured,  \* *counterFilePath != ""
    counterFile, \* counterFile != nil (the file is open)
    file,        \* content of the counter file on disk
    counter,     \* counter
    counterLock, \* holder of counterLock: 0 (free) or a request slot
    counterFileLock, \* holder of counterFileLock: "free", "periodic", "signal"
    passwordsMade,   \* passwords != nil
    passwords,   \* content of the passwords channel buffer
    genPc,       \* generatePasswords: "off", "make", "loop", "send"
    password,    \* generatePasswords' local buffer
    rng,         \* state of the math/rand source
    req,         \* per request slot: the handler's position and locals
    saverNew,    \* saveCounter goroutines spawned, not yet past the nil check
    saverWait,   \* saveCounter goroutines waiting for counterFileLock
    sigPc,       \* handleSignals: "off", "notify", "wait", "save", "lock", "io", "exit"
    sigChan,     \* signals buffered in sigChan (capacity 1)
    hist         \* history (not program state), see HistInit

vars == <<proc, configured, counterFile, file, counter, counterLock, counterFileLock,
          passwordsMade, passwords, genPc, password, rng, req, saverNew, saverWait,
          sigPc, sigChan, hist>>

-----------------------------------------------------------------------------
(* Program constants *)

minPasswordLength == 8
maxPasswordLength == 30
\* make(chan string, 10)
passwordsCap == 10
\* counter%100 == 0
flushEvery == 100

\* line 126
alphabet == "abcdefghjkmnpqrstuvwxyzABCDEFGHJKLMNPQRSTUVWXYZ23456789"

-----------------------------------------------------------------------------
(* Text and numbers.  Text is a string; Char(s, i) is its i-th character. *)

Char(s, i) == SubSeq(s, i, i)
Rest(s) == SubSeq(s, 2, Len(s))
Chars(s) == { Char(s, i) : i \in 1..Len(s) }

Digits == <<"0", "1", "2", "3", "4", "5", "6", "7", "8", "9">>
IsDigit(c) == \E i \in 1..10 : Digits[i] = c
DigitVal(c) == (CHOOSE i \in 1..10 : Digits[i] = c) - 1
AllDigits(s) == \A i \in 1..Len(s) : IsDigit(Char(s, i))

\* A text is a string of bytes: a byte below 0x80 is its ASCII character, a
\* byte from 0x80 is the character of that code point.  The bytes that the
\* white space of unicode.IsSpace is made of:
\* '\v' (0x0B)
VT == ""
\* the continuation bytes 0x80 .. 0x8A, in order
Bytes80To8A == ""
\* 0x9A, 0x9F, 0xA0, 0xA8, 0xA9, 0xAF
Byte9A == ""
Byte9F == ""
ByteA0 == " "
ByteA8 == "¨"
ByteA9 == "©"
ByteAF == "¯"
\* the lead bytes 0xC2, 0xE1, 0xE2, 0xE3
ByteC2 == "Â"
ByteE1 == "á"
ByteE2 == "â"
ByteE3 == "ã"

\* U+0085 (NEL) and U+00A0 (NBSP) in UTF-8
NEL == ByteC2 \o Char(Bytes80To8A, 6)
NBSP == ByteC2 \o ByteA0

\* unicode.IsSpace, as the UTF-8 encodings of the runes it accepts:
\* '\t', '\n', '\v', '\f', '\r', ' ', U+0085, U+00A0, and the White_Space
\* runes beyond Latin-1: U+1680, U+2000 .. U+200A, U+2028, U+2029, U+202F,
\* U+205F, U+3000
WhiteSpace ==
    {" ", "\n", "\t", "\r", "\f", VT, NEL, NBSP}
        \cup {ByteE1 \o Byte9A \o Char(Bytes80To8A, 1)}
        \cup {ByteE2 \o Char(Bytes80To8A, 1) \o Char(Bytes80To8A, i) : i \in 1..11}
        \cup {ByteE2 \o Char(Bytes80To8A, 1) \o c : c \in {ByteA8, ByteA9, ByteAF}}
        \cup {ByteE2 \o Char(Bytes80To8A, 2) \o Byte9F}
        \cup {ByteE3 \o Char(Bytes80To8A, 1) \o Char(Bytes80To8A, 1)}

\* the white space rune s starts with ("" if none), and the one it ends with
SpaceAtStart(s) ==
    IF \E w \in WhiteSpace : Len(w) <= Len(s) /\ SubSeq(s, 1, Len(w)) = w
    THEN CHOOSE w \in WhiteSpace : Len(w) <= Len(s) /\ SubSeq(s, 1, Len(w)) = w
    ELSE ""
SpaceAtEnd(s) ==
    IF \E w \in WhiteSpace : Len(w) <= Len(s) /\ SubSeq(s, Len(s) - Len(w) + 1, Len(s)) = w
    THEN CHOOSE w \in WhiteSpace :
             Len(w) <= Len(s) /\ SubSeq(s, Len(s) - Len(w) + 1, Len(s)) = w
    ELSE ""

\* bytes.TrimLeftFunc(s, unicode.IsSpace)
RECURSIVE TrimLeft(_)
TrimLeft(s) ==
    IF SpaceAtStart(s) # ""
    THEN TrimLeft(SubSeq(s, Len(SpaceAtStart(s)) + 1, Len(s))) ELSE s

\* bytes.TrimRightFunc(s, unicode.IsSpace)
RECURSIVE TrimRight(_)
TrimRight(s) ==
    IF SpaceAtEnd(s) # ""
    THEN TrimRight(SubSeq(s, 1, Len(s) - Len(SpaceAtEnd(s)))) ELSE s

TrimSpaceRightOnlyBug(s) == TrimRight(s)

\* bytes.TrimSpace (line 60): leading and trailing white space removed
TrimSpace(s) == TrimRight(TrimLeft(s))

RECURSIVE StripZeros(_)
StripZeros(s) ==
    IF Len(s) > 0 /\ Char(s, 1) = "0" THEN StripZeros(Rest(s)) ELSE s

\* a and b are digit strings of one length: a > b as numbers
RECURSIVE LexGreater(_, _)
LexGreater(a, b) ==
    IF Len(a) = 0 \/ Len(b) = 0 THEN FALSE
    ELSE IF Char(a, 1) # Char(b, 1) THEN DigitVal(Char(a, 1)) > DigitVal(Char(b, 1))
    ELSE LexGreater(Rest(a), Rest(b))

\* a and b are digit strings without leading zeros: a > b as numbers
DigitsGreater(a, b) ==
    \/ Len(a) > Len(b)
    \/ Len(a) = Len(b) /\ LexGreater(a, b)

\* the value of a digit string
RECURSIVE DigitsVal(_)
DigitsVal(s) ==
    IF Len(s) = 0 THEN 0
    ELSE 10 * DigitsVal(SubSeq(s, 1, Len(s) - 1)) + DigitVal(Char(s, Len(s)))

\* 1<<64 - 1, 1<<63 - 1 and 1<<63
MaxUint64Digits == "18446744073709551615"
MaxInt64Digits == "9223372036854775807"
MinInt64Digits == "9223372036854775808"

\* the zero byte of a fresh buffer
NUL == "?"

NoErr == "nil"
ErrSyntax == "ErrSyntax"
ErrRange == "ErrRange"

\* the digits s starts with
RECURSIVE DigitPrefix(_)
DigitPrefix(s) ==
    IF Len(s) > 0 /\ IsDigit(Char(s, 1)) THEN Char(s, 1) \o DigitPrefix(Rest(s)) ELSE ""

\* strconv.ParseUint(s, 10, 64) reads s from the left: a byte that is no
\* digit (a sign, an underscore) is a syntax error, with value 0; digits
\* whose value passes 1<<64 - 1 are a range error, with value 1<<64 - 1,
\* returned before the bytes after them are looked at.  The range is checked
\* on the digits, and the value of a range error, which is beyond the
\* model's integers, is given by its decimal digits.
ParseUint(s) ==
    LET p == DigitPrefix(s)
    IN  IF Len(s) = 0 THEN [err |-> ErrSyntax, val |-> 0]
        ELSE IF DigitsGreater(StripZeros(p), MaxUint64Digits)
        THEN [err |-> ErrRange, val |-> MaxUint64Digits]
        ELSE IF Len(p) < Len(s) THEN [err |-> ErrSyntax, val |-> 0]
        ELSE [err |-> NoErr, val |-> DigitsVal(StripZeros(p))]

\* strconv.Atoi(s) with a 64-bit int: an optional sign, then ParseUint on
\* the rest (syntax error: value 0; digits beyond 1<<64 - 1: range error);
\* a value outside [-1<<63, 1<<63 - 1] is a range error.  The value of a
\* range error is the nearest bound, given by its decimal digits.
Atoi(s) ==
    LET neg == Len(s) > 0 /\ Char(s, 1) = "-"
        body == IF Len(s) > 0 /\ Char(s, 1) \in {"+", "-"} THEN Rest(s) ELSE s
        p == DigitPrefix(body)
        sig == StripZeros(p)
        outOfRange == [err |-> ErrRange,
                       val |-> IF neg THEN "-" \o MinInt64Digits ELSE MaxInt64Digits]
    IN  IF Len(body) = 0 THEN [err |-> ErrSyntax, val |-> 0]
        ELSE IF DigitsGreater(sig, MaxUint64Digits) THEN outOfRange
        ELSE IF Len(p) < Len(body) THEN [err |-> ErrSyntax, val |-> 0]
        ELSE IF DigitsGreater(sig, IF neg THEN MinInt64Digits ELSE MaxInt64Digits)
        THEN outOfRange
        ELSE [err |-> NoErr, val |-> IF neg THEN -DigitsVal(sig) ELSE DigitsVal(sig)]

\* strconv.FormatUint(n, 10) and fmt.Fprint of a uint64: decimal, no padding
RECURSIVE FormatUint(_)
FormatUint(n) ==
    IF n < 10 THEN Digits[n + 1]
    ELSE FormatUint(n \div 10) \o Digits[(n % 10) + 1]

\* Go's % truncates toward zero
GoMod(a, b) == IF a >= 0 THEN a % b ELSE -((-a) % b)

\* os.File.Write at offset 0: the bytes beyond the text written stay
WriteAt0(old, text) ==
    IF Len(text) >= Len(old) THEN text
    ELSE text \o SubSeq(old, Len(text) + 1, Len(old))

-----------------------------------------------------------------------------
(* Bounds and inputs of the model *)

\* Spec: concurrent request handlers, and calls of getPassword per run
NReq == 2
MaxCalls == 2
\* SpecApi, SpecMem: one handler at a time; calls of getPassword per run
NReqOne == 1
MaxCallsOne == 1
\* SpecMem: calls of getPassword per run without a counter file, enough for
\* the counter to pass 100
MaxCallsMem == 101
\* SpecApi, SpecLoad: the longest input text drawn from the input characters
MaxText == 3
\* SpecReq: calls of getPassword per run
MaxCallsReq == 3

\* counter file contents at startup
Files == {"", "    99", "x"}
\* the len form value ("" when absent)
Lens == {"12"}
\* URL paths that reach indexHandler
Paths == {"/", "/favicon.ico"}
\* signals the environment sends
Signals == {"SIGTERM", "SIGINT", "SIGKILL"}
\* outcomes of saveCounter's file operations
Outcomes == {"ok", "seek", "write", "sync"}

\* The math/rand source: rand.Int() is never negative.  The source is
\* deterministic once seeded; the model's source cycles through RandStream,
\* whose length has no factor in common with the length of a password, so
\* that successive passwords differ.
RandStream == <<0, 1, 54, 55, 56, 109, 110, 164, 12345, 1000003, 2147483647>>
Seeds == {0}
RandInt(s) == RandStream[s + 1]
\* the source's state after k calls of rand.Int()
RandAfter(s, k) == (s + k) % Len(RandStream)

-----------------------------------------------------------------------------
(* State after construction *)

\* a request slot: pc is "idle", "lock", "load", "store", "recv", "parked",
\* "page" or "respond"; kind is the handler's case; lenArg the len form value;
\* n the length asked of getPassword; tmp the counter as counter++ read it;
\* pw what getPassword returned; seen the counter as indexHandler read it for
\* its page; path the URL path requested.  Kept for the properties: mine,
\* the value the request's counter++ wrote, and took, the rank of its
\* receive among the receives.
IdleReq == [pc |-> "idle", kind |-> "none", lenArg |-> "", n |-> 0, tmp |-> 0,
            pw |-> "", seen |-> 0, mine |-> 0, took |-> 0, path |-> ""]

\* History, kept for the properties; the program does not read it.
\*   counter0  counter after the startup load
\*   file0     counter file content at startup
\*   calls     getPassword calls made
\*   incs      counter++ statements completed
\*   spawned   saveCounter goroutines started by getPassword
\*   flushes   the last two saveCounter runs that reached the file:
\*             [ok: no error, val: the counter written, after: the file then]
\*   sig       the first signal sent: "none", or the signal's name
\*   sigAt     handleSignals' position when it was sent
\*   sigInc    a counter++ has completed since it was sent
\*   loadErr   the error of the startup parse: "" before it, then NoErr,
\*             ErrSyntax or ErrRange
\*   takes     receives from the passwords channel completed
\*   seed      the state of the math/rand source at startup
HistInit(f, seed) == [counter0 |-> 0, file0 |-> f, calls |-> 0, incs |-> 0, spawned |-> 0,
                flushes |-> <<>>, sig |-> "none", sigAt |-> "off", sigInc |-> FALSE,
                loadErr |-> "", takes |-> 0, seed |-> seed]

InitWith(configs, files, seeds, slots) ==
    /\ proc = "starting"
    /\ configured \in configs
    /\ counterFile = FALSE
    /\ file \in (IF configured THEN files ELSE {""})
    /\ counter = 0
    /\ counterLock = 0
    /\ counterFileLock = "free"
    /\ passwordsMade = FALSE
    /\ passwords = <<>>
    /\ genPc = "off"
    /\ password = ""
    /\ rng \in seeds
    /\ req = [r \in 1..slots |-> IdleReq]
    /\ saverNew = 0
    /\ saverWait = 0
    /\ sigPc = "off"
    /\ sigChan = 0
    /\ hist = HistInit(file, rng)

Init == InitWith(BOOLEAN, Files, Seeds, NReq)

Slots == DOMAIN req

Running == proc \in {"starting", "opened", "loaded", "serving"}

\* The process ends (log.Fatal, os.Exit, an uncaught signal): its goroutines,
\* locks and channels are gone.  The counter file stays, and counter keeps
\* the value c it had at the end.
EndedWith(how, c) ==
    /\ proc' = how
    /\ counterLock' = 0
    /\ counterFileLock' = "free"
    /\ passwordsMade' = FALSE
    /\ passwords' = <<>>
    /\ genPc' = "off"
    /\ password' = ""
    /\ rng' = 0
    /\ req' = [r \in DOMAIN req |-> IdleReq]
    /\ saverNew' = 0
    /\ saverWait' = 0
    /\ sigPc' = "off"
    /\ sigChan' = 0
    /\ counter' = c
    /\ UNCHANGED <<configured, counterFile, file>>

Ended(how) == EndedWith(how, counter)

-----------------------------------------------------------------------------
(* main *)

\* the counter value main takes from the file's content
Load(content) ==
    IF Len(content) > 0 THEN ParseUint(TrimSpace(content))
    ELSE [err |-> NoErr, val |-> 0]

\* main, lines 51-54: os.OpenFile succeeds and counterFile holds the open file
MainOpen ==
    /\ proc = "starting" /\ configured
    /\ proc' = "opened"
    /\ counterFile' = TRUE
    /\ UNCHANGED <<configured, file, counter, counterLock, counterFileLock,
                   passwordsMade, passwords, genPc, password, rng, req, saverNew,
                   saverWait, sigPc, sigChan, hist>>

\* main, lines 51-54: os.OpenFile fails, counterFile is nil, log.Fatalf
MainOpenFail ==
    /\ proc = "starting" /\ configured
    /\ Ended("aborted")
    /\ UNCHANGED hist

\* main, lines 55-65: read the open file and parse it; line 60 assigns the
\* value ParseUint returns to counter also when it returns an error, before
\* log.Fatal ends the process.  The file stays open in either case.
MainLoad ==
    /\ proc = "opened"
    /\ \/ /\ Load(file).err = NoErr
          /\ proc' = "loaded"
          /\ counter' = Load(file).val
          /\ hist' = [hist EXCEPT !.counter0 = Load(file).val, !.loadErr = NoErr]
          /\ UNCHANGED <<configured, counterFile, file, counterLock, counterFileLock,
                         passwordsMade, passwords, genPc, password, rng, req,
                         saverNew, saverWait, sigPc, sigChan>>
       \/ /\ Load(file).err # NoErr
          /\ EndedWith("aborted", Load(file).val)
          /\ hist' = [hist EXCEPT !.loadErr = Load(file).err]

\* main, lines 55-58: ioutil.ReadAll fails on the open file, log.Fatalf
MainLoadFail ==
    /\ proc = "opened"
    /\ Ended("aborted")
    /\ UNCHANGED hist

\* main, lines 67-79: register the handlers, start handleSignals and
\* generatePasswords, listen
MainServe ==
    /\ IF configured THEN proc = "loaded" ELSE proc = "starting"
    /\ proc' = "serving"
    /\ genPc' = "make"
    /\ sigPc' = "notify"
    /\ UNCHANGED <<configured, counterFile, file, counter, counterLock, counterFileLock,
                   passwordsMade, passwords, password, rng, req, saverNew, saverWait,
                   sigChan, hist>>

\* main, line 79: log.Fatal(http.ListenAndServe(...)).  ListenAndServe
\* returns only with an error, at once if it cannot listen, and log.Fatal
\* ends the process.
MainListenFail ==
    /\ proc = "serving"
    /\ Ended("aborted")
    /\ UNCHANGED hist

-----------------------------------------------------------------------------
(* generatePasswords *)

\* make([]byte, n)
RECURSIVE Zeros(_)
Zeros(n) == IF n = 0 THEN "" ELSE Zeros(n - 1) \o NUL

\* lines 123-127: passwords = make(chan string, 10), and the buffer
GenMake ==
    /\ Running /\ genPc = "make"
    /\ passwordsMade' = TRUE
    /\ passwords' = <<>>
    /\ genPc' = "loop"
    /\ password' = Zeros(maxPasswordLength)
    /\ UNCHANGED <<proc, configured, counterFile, file, counter, counterLock,
                   counterFileLock, rng, req, saverNew, saverWait, sigPc, sigChan, hist>>

\* line 130: alphabet[rand.Int()%len(alphabet)]
PickChar(s) == Char(alphabet, GoMod(RandInt(s), Len(alphabet)) + 1)

\* the bytes written at the indices i (from 0) up to n - 1, with the source
\* in state s at index 0
RECURSIVE Drawn(_, _, _)
Drawn(i, n, s) ==
    IF i >= n THEN "" ELSE PickChar(RandAfter(s, i)) \o Drawn(i + 1, n, s)

FillPasswordStopsEarlyBug(buf, s) ==
    Drawn(0, Len(buf) - 1, s) \o SubSeq(buf, Len(buf), Len(buf))

\* lines 129-131: for i := 0; i < len(password); i++ { password[i] = ... }
FillPassword(buf, s) == Drawn(0, Len(buf), s)

HasRoomAlwaysBug(q) == TRUE

\* line 132: a send on the buffered channel goes through only while the
\* buffer holds fewer entries than its capacity
HasRoom(q) == Len(q) < passwordsCap

\* lines 129-131: the buffer is filled, whatever the channel holds
GenFill ==
    /\ Running /\ genPc = "loop"
    /\ password' = FillPassword(password, rng)
    /\ rng' = RandAfter(rng, Len(password))
    /\ genPc' = "send"
    /\ UNCHANGED <<proc, configured, counterFile, file, counter, counterLock,
                   counterFileLock, passwordsMade, passwords, req, saverNew, saverWait,
                   sigPc, sigChan, hist>>

\* line 132: passwords <- string(password), which blocks while the channel
\* is full
GenSend ==
    /\ Running /\ genPc = "send"
    /\ HasRoom(passwords)
    /\ passwords' = Append(passwords, password)
    /\ genPc' = "loop"
    /\ UNCHANGED <<proc, configured, counterFile, file, counter, counterLock,
                   counterFileLock, passwordsMade, password, rng, req, saverNew,
                   saverWait, sigPc, sigChan, hist>>

-----------------------------------------------------------------------------
(* The request handlers *)

Free(r) == req[r].pc = "idle"

Take(s, n) == SubSeq(s, 1, n)

\* apiHandler, lines 98-106: the length asked for, put into [8, 30]
ApiLen(lenArg) ==
    LET a == Atoi(lenArg)
    IN  IF a.err # NoErr THEN minPasswordLength
        ELSE IF a.val < minPasswordLength THEN minPasswordLength
        ELSE IF a.val > maxPasswordLength THEN maxPasswordLength
        ELSE a.val

\* apiHandler up to its call of getPassword (lines 98-110)
ApiArrive(r, lenArg, limit) ==
    /\ proc = "serving" /\ Free(r)
    /\ hist.calls < limit
    /\ req' = [req EXCEPT ![r] = [IdleReq EXCEPT !.pc = "lock", !.kind = "api",
                                                 !.path = "/password.txt",
                                                 !.lenArg = lenArg, !.n = ApiLen(lenArg)]]
    /\ hist' = [hist EXCEPT !.calls = @ + 1]
    /\ UNCHANGED <<proc, configured, counterFile, file, counter, counterLock,
                   counterFileLock, passwordsMade, passwords, genPc, password, rng,
                   saverNew, saverWait, sigPc, sigChan>>

IsRootAlwaysBug(path) == TRUE

\* line 83: req.URL.Path != "/"
IsRoot(path) == path = "/"

\* indexHandler up to its call of getPassword (lines 83-89); any path other
\* than "/" is answered 404
IndexArrive(r, path, limit) ==
    /\ proc = "serving" /\ Free(r)
    /\ \/ /\ ~IsRoot(path)
          /\ req' = [req EXCEPT ![r] = [IdleReq EXCEPT !.pc = "respond", !.kind = "notfound",
                                                       !.path = path]]
          /\ UNCHANGED hist
       \/ /\ IsRoot(path)
          /\ hist.calls < limit
          /\ req' = [req EXCEPT ![r] = [IdleReq EXCEPT !.pc = "lock", !.kind = "index",
                                                       !.path = path,
                                                       !.n = minPasswordLength]]
          /\ hist' = [hist EXCEPT !.calls = @ + 1]
    /\ UNCHANGED <<proc, configured, counterFile, file, counter, counterLock,
                   counterFileLock, passwordsMade, passwords, genPc, password, rng,
                   saverNew, saverWait, sigPc, sigChan>>

\* counterHandler, lines 114-115: the headers; the counter is read at line 116
CounterArrive(r) ==
    /\ proc = "serving" /\ Free(r)
    /\ req' = [req EXCEPT ![r] = [IdleReq EXCEPT !.pc = "respond", !.kind = "counter",
                                                 !.path = "/counter"]]
    /\ UNCHANGED <<proc, configured, counterFile, file, counter, counterLock,
                   counterFileLock, passwordsMade, passwords, genPc, password, rng,
                   saverNew, saverWait, sigPc, sigChan, hist>>

CanLockAlwaysBug(r) == TRUE

CanLockWhileHolderWaitsBug(r) ==
    IF counterLock = 0 THEN TRUE ELSE req[counterLock].pc \in {"recv", "parked"}

\* sync.Mutex.Lock returns only when no one holds the mutex
CanLock(r) == counterLock = 0

\* getPassword, line 137: counterLock.Lock()
GetLock(r) ==
    /\ Running /\ req[r].pc = "lock"
    /\ CanLock(r)
    /\ counterLock' = r
    /\ req' = [req EXCEPT ![r].pc = "load"]
    /\ UNCHANGED <<proc, configured, counterFile, file, counter, counterFileLock,
                   passwordsMade, passwords, genPc, password, rng, saverNew, saverWait,
                   sigPc, sigChan, hist>>

\* getPassword, line 139: counter++ reads counter ...
GetLoad(r) ==
    /\ Running /\ req[r].pc = "load"
    /\ req' = [req EXCEPT ![r].pc = "store", ![r].tmp = counter]
    /\ UNCHANGED <<proc, configured, counterFile, file, counter, counterLock,
                   counterFileLock, passwordsMade, passwords, genPc, password, rng,
                   saverNew, saverWait, sigPc, sigChan, hist>>

FlushDueIgnoresFileBug(c) == GoMod(c, flushEvery) = 0

FlushDueEveryCallBug(c) == counterFile

\* line 140: counterFile != nil && counter%100 == 0
FlushDue(c) == counterFile /\ GoMod(c, flushEvery) = 0

\* ... and writes it back plus one; lines 140-142: go saveCounter()
GetStore(r) ==
    /\ Running /\ req[r].pc = "store"
    /\ counter' = req[r].tmp + 1
    /\ saverNew' = IF FlushDue(counter') THEN saverNew + 1 ELSE saverNew
    /\ req' = [req EXCEPT ![r].pc = "recv", ![r].tmp = 0, ![r].mine = counter']
    /\ hist' = [hist EXCEPT !.incs = @ + 1,
                            !.spawned = IF FlushDue(counter') THEN @ + 1 ELSE @,
                            !.sigInc = (hist.sig # "none")]
    /\ UNCHANGED <<proc, configured, counterFile, file, counterLock, counterFileLock,
                   passwordsMade, passwords, genPc, password, rng, saverWait, sigPc,
                   sigChan>>

DequeuedKeepsHeadBug(q) == q

\* the channel buffer after a receive
Dequeued(q) == Tail(q)

\* line 143: return <-passwords.  A receive from a nil channel blocks
\* forever; otherwise the receive waits for an entry, and the deferred
\* counterLock.Unlock() runs as getPassword returns.
GetRecv(r) ==
    /\ Running /\ req[r].pc = "recv"
    /\ \/ /\ ~passwordsMade
          /\ req' = [req EXCEPT ![r].pc = "parked"]
          /\ UNCHANGED <<passwords, counterLock, hist>>
       \/ /\ passwordsMade
          /\ Len(passwords) > 0
          /\ passwords' = Dequeued(passwords)
          /\ counterLock' = 0
          /\ req' = [req EXCEPT ![r].pc = IF req[r].kind = "index" THEN "page"
                                          ELSE "respond",
                                ![r].pw = Head(passwords),
                                ![r].took = hist.takes + 1]
          /\ hist' = [hist EXCEPT !.takes = @ + 1]
    /\ UNCHANGED <<proc, configured, counterFile, file, counter, counterFileLock,
                   passwordsMade, genPc, password, rng, saverNew, saverWait, sigPc,
                   sigChan>>

\* indexHandler, line 90: Counter: fmt.Sprint(counter), read without the
\* lock after getPassword has returned
IndexPage(r) ==
    /\ Running /\ req[r].pc = "page"
    /\ req' = [req EXCEPT ![r].pc = "respond", ![r].seen = counter]
    /\ UNCHANGED <<proc, configured, counterFile, file, counter, counterLock,
                   counterFileLock, passwordsMade, passwords, genPc, password, rng,
                   saverNew, saverWait, sigPc, sigChan, hist>>

\* What the handler in slot r writes as the response body:
\*   apiHandler, line 110: getPassword()[:n]
\*   indexHandler, lines 88-94: the page's Password is getPassword()[:8] (its
\*     Counter is the counter as read at line 90, see PageCounter)
\*   counterHandler, lines 116-118: the counter in decimal
\*   indexHandler, line 84: a 404 page
Body(r) ==
    CASE req[r].kind \in {"api", "index"} -> Take(req[r].pw, req[r].n)
      [] req[r].kind = "counter" -> FormatUint(counter)
      [] OTHER -> ""

\* indexHandler, lines 90 and 94: the Counter its page shows
PageCounter(r) == FormatUint(req[r].seen)

\* the handler writes its response and returns
Respond(r) ==
    /\ Running /\ req[r].pc = "respond"
    /\ req' = [req EXCEPT ![r] = IdleReq]
    /\ UNCHANGED <<proc, configured, counterFile, file, counter, counterLock,
                   counterFileLock, passwordsMade, passwords, genPc, password, rng,
                   saverNew, saverWait, sigPc, sigChan, hist>>

-----------------------------------------------------------------------------
(* saveCounter, run by a goroutine of getPassword ("periodic") or called by *)
(* handleSignals ("signal")                                                 *)

Callers == {"periodic", "signal"}

\* the caller is at saveCounter's entry
AtSave(who) == IF who = "signal" THEN sigPc = "save" ELSE saverNew > 0
\* the caller is at counterFileLock.Lock()
AtLock(who) == IF who = "signal" THEN sigPc = "lock" ELSE saverWait > 0

\* the caller's position moves on: "lock", "io", or "ret" (saveCounter returned)
Moved(who, from, to) ==
    IF who = "signal"
    THEN /\ sigPc' = (IF to = "ret" THEN "exit" ELSE to)
         /\ UNCHANGED <<saverNew, saverWait>>
    ELSE /\ saverNew' = IF from = "save" THEN saverNew - 1 ELSE saverNew
         /\ saverWait' = saverWait + (IF to = "lock" THEN 1 ELSE 0)
                                   - (IF from = "lock" THEN 1 ELSE 0)
         /\ UNCHANGED sigPc

\* lines 147-149: if counterFile == nil { return }
SaveEnter(who) ==
    /\ Running /\ AtSave(who)
    /\ \/ /\ ~counterFile
          /\ Moved(who, "save", "ret")
       \/ /\ counterFile
          /\ Moved(who, "save", "lock")
    /\ UNCHANGED <<proc, configured, counterFile, file, counter, counterLock,
                   counterFileLock, passwordsMade, passwords, genPc, password, rng, req,
                   sigChan, hist>>

CanLockFileNeedsCounterLockBug(who) == counterFileLock = "free" /\ counterLock = 0

\* sync.Mutex.Lock returns only when no one holds the mutex
CanLockFile(who) == counterFileLock = "free"

\* line 151: counterFileLock.Lock()
SaveLock(who) ==
    /\ Running /\ AtLock(who)
    /\ CanLockFile(who)
    /\ counterFileLock' = who
    /\ Moved(who, "lock", "io")
    /\ UNCHANGED <<proc, configured, counterFile, file, counter, counterLock,
                   passwordsMade, passwords, genPc, password, rng, req, sigChan, hist>>

WrittenWithoutSeekBug(old, c, outcome) ==
    IF outcome \in {"ok", "sync"} THEN old \o FormatUint(c) ELSE old

\* lines 156-160: Seek(0, 0), then Fprint(counterFile, counter), then Sync();
\* the first error ends the chain.  Nothing truncates the file.
Written(old, c, outcome) ==
    IF outcome \in {"ok", "sync"} THEN WriteAt0(old, FormatUint(c)) ELSE old

SaveEndKeepsLockBug(who, outcome) == IF outcome = "ok" THEN "free" ELSE who

\* lines 152 and 161-164: the error is logged, and the deferred Unlock
\* releases counterFileLock as saveCounter returns, whatever the outcome
SaveEnd(who, outcome) == "free"

LastTwo(log) == IF Len(log) > 2 THEN Tail(log) ELSE log

\* lines 154-165, with the lock held; an error is logged, and the deferred
\* Unlock releases the lock as saveCounter returns
SaveIO(who, outcome) ==
    /\ Running /\ counterFileLock = who
    /\ file' = Written(file, counter, outcome)
    /\ counterFileLock' = SaveEnd(who, outcome)
    /\ Moved(who, "io", "ret")
    /\ hist' = [hist EXCEPT !.flushes = LastTwo(Append(@,
                   [ok |-> outcome = "ok", val |-> counter, after |-> file']))]
    /\ UNCHANGED <<proc, configured, counterFile, counter, counterLock, passwordsMade,
                   passwords, genPc, password, rng, req, sigChan>>

-----------------------------------------------------------------------------
(* handleSignals and the signals *)

\* lines 168-169: signal.Notify(sigChan, os.Kill, os.Interrupt)
SigNotify ==
    /\ Running /\ sigPc = "notify"
    /\ sigPc' = "wait"
    /\ UNCHANGED <<proc, configured, counterFile, file, counter, counterLock,
                   counterFileLock, passwordsMade, passwords, genPc, password, rng, req,
                   saverNew, saverWait, sigChan, hist>>

\* line 170: <-sigChan, then line 171 calls saveCounter
SigRecv ==
    /\ Running /\ sigPc = "wait"
    /\ sigChan > 0
    /\ sigChan' = sigChan - 1
    /\ sigPc' = "save"
    /\ UNCHANGED <<proc, configured, counterFile, file, counter, counterLock,
                   counterFileLock, passwordsMade, passwords, genPc, password, rng, req,
                   saverNew, saverWait, hist>>

\* line 172: os.Exit(0)
SigExit ==
    /\ Running /\ sigPc = "exit"
    /\ Ended("exited")
    /\ UNCHANGED hist

\* The signals signal.Notify relays to sigChan: SIGINT (os.Interrupt), once
\* Notify has run.  SIGKILL (os.Kill) cannot be caught, and SIGTERM is not in
\* the list.
Relayed(sig) == sig = "SIGINT" /\ sigPc \notin {"off", "notify"}

\* The environment sends a signal: a relayed one is put in sigChan (dropped
\* when the buffer is full); any other ends the process at once.  Nothing
\* receives from sigChan after line 170, so sigChan is tracked only until
\* then.
Signal(sig) ==
    /\ Running
    /\ \/ /\ Relayed(sig)
          /\ sigChan' = (IF sigPc = "wait" THEN 1 ELSE sigChan)
          /\ UNCHANGED <<proc, configured, counterFile, file, counter, counterLock,
                         counterFileLock, passwordsMade, passwords, genPc, password,
                         rng, req, saverNew, saverWait, sigPc>>
       \/ /\ ~Relayed(sig)
          /\ Ended("killed")
    /\ hist' = IF hist.sig = "none"
               THEN [hist EXCEPT !.sig = sig, !.sigAt = sigPc]
               ELSE hist

-----------------------------------------------------------------------------
(* Specifications *)

NextWith(lens, paths, limit) ==
    \/ MainOpen
    \/ MainOpenFail
    \/ MainLoad
    \/ MainLoadFail
    \/ MainServe
    \/ MainListenFail
    \/ GenMake
    \/ GenFill
    \/ GenSend
    \/ \E r \in Slots, l \in lens : ApiArrive(r, l, limit)
    \/ \E r \in Slots, p \in paths : IndexArrive(r, p, limit)
    \/ \E r \in Slots : CounterArrive(r)
    \/ \E r \in Slots : GetLock(r)
    \/ \E r \in Slots : GetLoad(r)
    \/ \E r \in Slots : GetStore(r)
    \/ \E r \in Slots : GetRecv(r)
    \/ \E r \in Slots : IndexPage(r)
    \/ \E r \in Slots : Respond(r)
    \/ \E who \in Callers : SaveEnter(who)
    \/ \E who \in Callers : SaveLock(who)
    \/ \E who \in Callers, o \in Outcomes : SaveIO(who, o)
    \/ SigNotify
    \/ SigRecv
    \/ SigExit
    \/ \E sig \in Signals : Signal(sig)

Next == NextWith(Lens, Paths, MaxCalls)

\* the whole program
Spec == Init /\ [][Next]_vars

-----------------------------------------------------------------------------
(* Input texts *)

\* the texts of at most n characters drawn from chars
RECURSIVE TextsUpTo(_, _)
TextsUpTo(chars, n) ==
    IF n = 0 THEN {""}
    ELSE LET shorter == TextsUpTo(chars, n - 1)
         IN  shorter \cup { t \o c : t \in shorter, c \in chars }

\* len form values: short texts, numbers beyond the 64-bit range, and
\* digits followed by a character that is no digit
ApiLens ==
    TextsUpTo({"-", "+", "0", "1", "3", "9", "x"}, MaxText)
        \cup {"8", "12", "30", "31", "1000", "-1000", " 12", "12 ", "1_0", "0x10",
              "9223372036854775808", "-9223372036854775809", "99999999999999999999",
              "9223372036854775808x", "99999999999999999999x",
              "-99999999999999999999x"}

\* counter file contents: short texts, numbers around the 64-bit range,
\* digits followed by a character that is no digit, and every kind of white
\* space
LoadFiles ==
    TextsUpTo({"0", "7", " ", "\n", "x", "-"}, MaxText)
        \cup {"99", "57\n", "  100\r\n", "1_0", "+7", "0x10", "\t250",
              "18446744073709551616", "99999999999999999999",
              "18446744073709551615x", "18446744073709551616x",
              "7\f", "\f7", VT \o "7", "7" \o VT, NEL \o "42", "42" \o NBSP,
              ByteA0 \o "7", "7" \o ByteC2}

\* apiHandler alone: one request for /password.txt with any len, no counter
\* file, and nothing that ends the process
NextApi ==
    \/ MainServe
    \/ GenMake
    \/ GenFill
    \/ GenSend
    \/ \E r \in Slots, l \in ApiLens : ApiArrive(r, l, MaxCallsOne)
    \/ \E r \in Slots : GetLock(r)
    \/ \E r \in Slots : GetLoad(r)
    \/ \E r \in Slots : GetStore(r)
    \/ \E r \in Slots : GetRecv(r)
    \/ \E r \in Slots : Respond(r)

SpecApi == InitWith({FALSE}, {""}, Seeds, NReqOne) /\ [][NextApi]_vars

\* Fair scheduling of the goroutines: a step of main, of the generator or
\* of a request handler that stays possible is taken.  Nothing obliges the
\* environment to send a request.
FairApi ==
    /\ WF_vars(MainServe)
    /\ WF_vars(GenMake)
    /\ WF_vars(GenFill)
    /\ WF_vars(GenSend)
    /\ \A r \in 1..NReqOne :
          /\ WF_vars(GetLock(r))
          /\ WF_vars(GetLoad(r))
          /\ WF_vars(GetStore(r))
          /\ WF_vars(GetRecv(r))
          /\ WF_vars(Respond(r))

FairSpecApi == SpecApi /\ FairApi

\* the startup alone, on any counter file
NextLoad ==
    \/ MainOpen
    \/ MainOpenFail
    \/ MainLoad
    \/ MainLoadFail
    \/ MainServe
    \/ MainListenFail

SpecLoad == InitWith(BOOLEAN, LoadFiles, Seeds, NReqOne) /\ [][NextLoad]_vars

\* the whole program with one handler; without a counter file the run is
\* long enough for the counter to pass 100
NextMem == NextWith(Lens, Paths, IF configured THEN MaxCallsOne ELSE MaxCallsMem)

SpecMem == InitWith(BOOLEAN, Files, Seeds, NReqOne) /\ [][NextMem]_vars

\* the handlers and the generator, without a counter file and with nothing
\* that ends the process: concurrent requests of every kind
NextReq ==
    \/ MainServe
    \/ GenMake
    \/ GenFill
    \/ GenSend
    \/ \E r \in Slots, l \in Lens : ApiArrive(r, l, MaxCallsReq)
    \/ \E r \in Slots, p \in Paths : IndexArrive(r, p, MaxCallsReq)
    \/ \E r \in Slots : CounterArrive(r)
    \/ \E r \in Slots : GetLock(r)
    \/ \E r \in Slots : GetLoad(r)
    \/ \E r \in Slots : GetStore(r)
    \/ \E r \in Slots : GetRecv(r)
    \/ \E r \in Slots : IndexPage(r)
    \/ \E r \in Slots : Respond(r)

SpecReq == InitWith({FALSE}, {""}, Seeds, NReq) /\ [][NextReq]_vars

\* counter files in the form the program itself writes: empty, or the
\* decimal text of the counter
CleanFiles == {"", "99"}

\* the whole program with a counter file in that form and one handler
NextFlush == NextWith(Lens, Paths, MaxCalls)

SpecFlush == InitWith({TRUE}, CleanFiles, Seeds, NReqOne) /\ [][NextFlush]_vars

-----------------------------------------------------------------------------
(* Properties *)

\* the positions inside getPassword
InCall == {"lock", "load", "store", "recv", "parked"}
\* ... before its counter++ has completed
BeforeInc == {"lock", "load", "store"}
\* the handlers that call getPassword
PasswordKinds == {"api", "index"}

NotYetCounted == Cardinality({r \in DOMAIN req : req[r].pc \in BeforeInc})

\* C1: under any interleaving, every getPassword call adds exactly 1 to the
\* counter: while the process runs, the counter is its initial value plus the
\* number of calls made, less the calls that have not yet passed counter++
\* (so it is initial + M once M calls have completed); and no step ever
\* lowers the counter, and no step of the serving process adds more than 1.
C1_CounterCountsCalls ==
    /\ [](Running => counter = hist.counter0 + hist.calls - NotYetCounted)
    /\ [][/\ counter' >= counter
          /\ proc = "serving" => counter' <= counter + 1]_vars

\* two calls that ran at the same time have both returned
C1_TwoCallsReturned ==
    /\ Running
    /\ \E r, q \in DOMAIN req :
          /\ r # q
          /\ req[r].pc = "respond" /\ req[r].kind \in PasswordKinds
          /\ req[q].pc = "respond" /\ req[q].kind \in PasswordKinds
    /\ counter = hist.counter0 + 2

\* C2: every call of getPassword eventually returns (or the process ends),
\* under fair scheduling.
C2_EveryCallReturns ==
    \A r \in 1..NReqOne : (req[r].pc \in InCall) ~> (req[r].pc \notin InCall)

\* the length the claim gives for a len value: 8 if it is absent or not a
\* decimal integer, else the integer put into [8, 30]
ClaimedLen(lenArg) ==
    LET neg == Len(lenArg) > 0 /\ Char(lenArg, 1) = "-"
        body == IF Len(lenArg) > 0 /\ Char(lenArg, 1) \in {"+", "-"}
                THEN Rest(lenArg) ELSE lenArg
        mag == StripZeros(body)
    IN  IF Len(body) = 0 \/ ~AllDigits(body) THEN 8
        ELSE IF neg THEN 8
        ELSE IF Len(mag) > 2 THEN 30
        ELSE IF DigitsVal(mag) < 8 THEN 8
        ELSE IF DigitsVal(mag) > 30 THEN 30
        ELSE DigitsVal(mag)

\* C3: the password /password.txt returns has length clamp(len, 8, 30) for
\* every len value.
C3_LengthIsClamp ==
    \A r \in DOMAIN req :
        req[r].kind = "api" /\ req[r].pc = "respond"
            => Len(Body(r)) = ClaimedLen(req[r].lenArg)

PasswordsWellFormed ==
    \A i \in 1..Len(passwords) :
        /\ Len(passwords[i]) = 30
        /\ Chars(passwords[i]) \subseteq Chars(alphabet)

\* C4 as stated: the alphabet has exactly 56 characters, and every queued
\* password has 30 characters of the alphabet.
C4_Alphabet56 ==
    /\ Len(alphabet) = 56
    /\ PasswordsWellFormed

\* C4, amended: the alphabet has exactly 55 characters, all different, the
\* index rand.Int() % len(alphabet) is within its bounds, and every queued
\* password has 30 characters, each of the alphabet.
C4_Alphabet55 ==
    /\ Len(alphabet) = 55
    /\ Cardinality(Chars(alphabet)) = 55
    /\ \A s \in 1..Len(RandStream) :
          GoMod(RandStream[s], Len(alphabet)) \in 0..(Len(alphabet) - 1)
    /\ PasswordsWellFormed

\* the generator has filled the channel
C4_ChannelFull ==
    /\ Len(passwords) = passwordsCap
    /\ \A i \in 1..Len(passwords) : Len(passwords[i]) = 30

-----------------------------------------------------------------------------
(* The counter file *)

Flush(i) == hist.flushes[i]

\* C5: after a flush that completes without error while the counter is V,
\* the file's entire content is the decimal text of V, and a load of it
\* gives V.
C5_FlushRoundTrip ==
    \A i \in 1..Len(hist.flushes) :
        Flush(i).ok =>
            /\ Flush(i).after = FormatUint(Flush(i).val)
            /\ Load(Flush(i).after) = [err |-> NoErr, val |-> Flush(i).val]

\* C6: two consecutive successful flushes of one counter value leave the
\* file as the first left it, and that content loads as the counter value.
C6_FlushIdempotent ==
    (/\ Len(hist.flushes) = 2
     /\ Flush(1).ok /\ Flush(2).ok
     /\ Flush(1).val = Flush(2).val)
        => /\ Flush(2).after = Flush(1).after
           /\ Load(Flush(2).after) = [err |-> NoErr, val |-> Flush(2).val]

\* C7: a counter file is configured and was empty at startup, requests have
\* been counted, a signal was sent while handleSignals waited for one, no
\* counter++ has completed since, and no flush has failed; then, once the
\* process has terminated, the file holds the decimal text of the counter.
C7_ShutdownFlushes ==
    (/\ proc \in {"exited", "killed"}
     /\ configured /\ counterFile
     /\ hist.file0 = ""
     /\ hist.incs > 0
     /\ hist.sig # "none" /\ hist.sigAt = "wait"
     /\ ~hist.sigInc
     /\ \A i \in 1..Len(hist.flushes) : Flush(i).ok)
        => file = FormatUint(counter)

\* a string of decimal digits
IsDecimal(t) == Len(t) > 0 /\ AllDigits(t)
\* ... whose value is at most 2^64 - 1
FitsUint64(t) == ~DigitsGreater(StripZeros(t), MaxUint64Digits)

\* the startup parse has run
LoadDone == configured /\ hist.loadErr # ""
\* ... and gave the counter v
LoadedAs(v) == hist.loadErr = NoErr /\ counterFile /\ hist.counter0 = v
LoadAborted == hist.loadErr # NoErr /\ proc = "aborted"

\* C8 as stated: an empty file gives counter 0; a non-empty file that is a
\* decimal integer once its trailing white space is removed gives that
\* integer; any other content aborts startup; the process never serves
\* without a successful load.
C8_LoadAsStated ==
    /\ LoadDone =>
          IF Len(hist.file0) = 0 THEN LoadedAs(0)
          ELSE IF IsDecimal(TrimRight(hist.file0))
               THEN /\ hist.loadErr = NoErr
                    /\ LoadedAs(DigitsVal(StripZeros(TrimRight(hist.file0))))
               ELSE LoadAborted
    /\ (configured /\ proc = "serving") => hist.loadErr = NoErr

\* C8, amended: an empty file gives counter 0; a non-empty file that, once
\* its leading and trailing white space is removed, is a string of decimal
\* digits of value at most 2^64 - 1 gives that integer; any other content
\* aborts startup; the process never serves without a successful load, and
\* starts serving with the loaded counter.
C8_LoadTrimmedUint64 ==
    /\ LoadDone =>
          IF Len(hist.file0) = 0 THEN LoadedAs(0)
          ELSE IF /\ IsDecimal(TrimLeft(TrimRight(hist.file0)))
                  /\ FitsUint64(TrimLeft(TrimRight(hist.file0)))
               THEN /\ hist.loadErr = NoErr
                    /\ LoadedAs(DigitsVal(StripZeros(TrimLeft(TrimRight(hist.file0)))))
               ELSE LoadAborted
    /\ (configured /\ proc = "serving") =>
          /\ hist.loadErr = NoErr
          /\ hist.incs = 0 => counter = hist.counter0

\* a file with leading white space was loaded, and the process serves
C8_LeadingSpaceLoaded ==
    /\ proc = "serving" /\ configured
    /\ hist.file0 = "\t250"
    /\ counter = 250

\* a step in which a flush failed
FailedFlushStep ==
    /\ hist'.flushes # hist.flushes
    /\ ~hist'.flushes[Len(hist'.flushes)].ok

\* C9: a failed flush leaves the counter unchanged, releases
\* counterFileLock, does not end the process and changes no request's
\* position or counterLock; and counterFileLock is never held by a
\* saveCounter that has returned.
C9_FailedFlushSwallowed ==
    /\ [][FailedFlushStep =>
             /\ counter' = counter
             /\ counterFileLock' = "free"
             /\ proc' = proc
             /\ req' = req
             /\ counterLock' = counterLock]_vars
    /\ [](counterFileLock = "signal" => sigPc = "io")

\* a flush failed, and the next flush succeeded
C9_FailedThenSucceeded ==
    /\ Len(hist.flushes) = 2
    /\ ~Flush(1).ok
    /\ Flush(2).ok
    /\ Flush(2).val = counter
    /\ counterFileLock = "free"

\* C10: without a counter file path the counter starts at 0, getPassword
\* starts no saveCounter (also at a multiple of 100), the shutdown
\* saveCounter takes no lock and writes nothing, the file is never written,
\* and the counter is the number of calls that have passed counter++.
C10_NoPathNoFlush ==
    ~configured =>
        /\ hist.counter0 = 0
        /\ ~counterFile
        /\ hist.spawned = 0 /\ saverNew = 0 /\ saverWait = 0
        /\ counterFileLock = "free"
        /\ sigPc \notin {"lock", "io"}
        /\ hist.flushes = <<>>
        /\ file = hist.file0
        /\ Running => counter = hist.calls - NotYetCounted

\* without a path the counter has reached 100, and the shutdown saveCounter
\* has returned
C10_HundredInMemory ==
    /\ ~configured
    /\ counter >= flushEvery
    /\ sigPc = "exit"

-----------------------------------------------------------------------------
(* The order of increments and receives *)

\* C11: the value a request's counter++ produced is the initial value plus
\* the number of increments completed then, no two requests in flight hold
\* the same value, and the counter a GET / request puts in its page is the
\* value its own increment produced.
C11_PageShowsOwnIncrement ==
    /\ \A r \in DOMAIN req :
          req[r].mine # 0 => req[r].mine \in (hist.counter0 + 1)..(hist.counter0 + hist.incs)
    /\ \A r, q \in DOMAIN req :
          (r # q /\ req[r].mine # 0) => req[r].mine # req[q].mine
    /\ \A r \in DOMAIN req :
          (req[r].kind = "index" /\ req[r].pc = "respond")
              => req[r].seen = req[r].mine

\* a request that getPassword has answered
Answered(r) == req[r].kind \in PasswordKinds /\ req[r].pc \in {"page", "respond"}

\* C12: the passwords channel never holds more than 10 entries; a step that
\* adds an entry starts with fewer than 10 and adds one; a step of the
\* running process that removes an entry starts with at least one and
\* removes one; and what a request took is a whole password, never the
\* value of an empty channel.
C12_QueueWithinCapacity ==
    /\ [](Len(passwords) <= 10)
    /\ [](\A r \in DOMAIN req : Answered(r) => Len(req[r].pw) = 30)
    /\ [][Len(passwords') > Len(passwords)
            => Len(passwords) < 10 /\ Len(passwords') = Len(passwords) + 1]_vars
    /\ [][(Len(passwords') < Len(passwords) /\ proc' = proc)
            => Len(passwords) > 0 /\ Len(passwords') = Len(passwords) - 1]_vars

\* the channel was full, a request took an entry, and the generator has
\* filled the channel again
C12_RefilledAfterTake ==
    /\ Len(passwords) = 10
    /\ hist.takes > 0

\* the k-th password the generator produces
NthPassword(k) ==
    FillPassword(Zeros(30), RandAfter(hist.seed, 30 * (k - 1)))

\* C13: the channel holds, in the order of their production, exactly the
\* passwords produced and not yet taken, unaltered; every answered request
\* holds the password of the rank of its receive, and no two requests hold
\* the same rank.
C13_EachPasswordOnceInOrder ==
    /\ \A i \in 1..Len(passwords) : passwords[i] = NthPassword(hist.takes + i)
    /\ \A r \in DOMAIN req :
          Answered(r) => /\ req[r].took \in 1..hist.takes
                         /\ req[r].pw = NthPassword(req[r].took)
    /\ \A r, q \in DOMAIN req :
          (r # q /\ Answered(r) /\ Answered(q)) => req[r].took # req[q].took

\* two requests hold the first two passwords, which differ, and the third
\* is at the head of the channel
C13_TwoRequestsTwoPasswords ==
    /\ \E r, q \in DOMAIN req :
          /\ Answered(r) /\ Answered(q)
          /\ req[r].took = 1 /\ req[q].took = 2
          /\ req[r].pw # req[q].pw
    /\ Len(passwords) > 0
    /\ passwords[1] = NthPassword(3)
    /\ NthPassword(3) \notin {NthPassword(1), NthPassword(2)}

-----------------------------------------------------------------------------
(* The periodic flush and the locks *)

\* saveCounter goroutines started by getPassword that have not returned
SaversInFlight ==
    saverNew + saverWait + (IF counterFileLock = "periodic" THEN 1 ELSE 0)

\* C14: a step that completes a counter++ starts one saveCounter goroutine
\* if a counter file is configured and the new counter is a multiple of
\* 100, and none otherwise; the request goes on to the receive in that very
\* step; no other step starts one.
C14_FlushSpawnedAtHundreds ==
    /\ [][IF hist'.incs # hist.incs
          THEN /\ hist'.incs = hist.incs + 1
               /\ saverNew' = saverNew
                      + (IF configured /\ counter' % 100 = 0 THEN 1 ELSE 0)
               /\ hist'.spawned - hist.spawned = saverNew' - saverNew
               /\ \E r \in DOMAIN req : req[r].pc = "store" /\ req'[r].pc = "recv"
          ELSE saverNew' <= saverNew /\ hist'.spawned = hist.spawned]_vars
    /\ [](SaversInFlight <= hist.spawned)

\* the request whose increment made the counter 100 has its password while
\* the saveCounter goroutine it started has not yet run
C14_AnsweredBeforeFlush ==
    /\ configured /\ Running
    /\ counter = 100
    /\ hist.spawned = 1 /\ saverNew = 1
    /\ hist.flushes = <<>>
    /\ \E r \in DOMAIN req : Answered(r) /\ req[r].mine = 100

\* the request is at getPassword's receive and no password is there to take
WaitsForPassword(r) ==
    /\ req[r].pc \in {"recv", "parked"}
    /\ ~passwordsMade \/ passwords = <<>>

\* C15: a request waiting at the receive of getPassword does not hold
\* counterLock.
C15_WaitsWithoutLock ==
    \A r \in DOMAIN req : WaitsForPassword(r) => counterLock # r

\* C16: the request that performed the N-th increment since the start
\* receives the N-th password taken: an answered request's receive has the
\* rank of its increment, and a request between its increment and its
\* receive is the next to receive.
C16_NthIncrementNthPassword ==
    \A r \in DOMAIN req :
        /\ Answered(r) => req[r].took = req[r].mine - hist.counter0
        /\ req[r].pc \in {"recv", "parked"}
              => req[r].mine - hist.counter0 = hist.takes + 1

\* two requests have been answered at the same time, a third call has made
\* its increment
C16_ThreeCallsInOrder ==
    /\ hist.incs = 3 /\ hist.takes >= 2
    /\ \E r, q \in DOMAIN req :
          /\ r # q
          /\ Answered(r) /\ req[r].took = 2
          /\ req[q].mine = hist.counter0 + 3

\* C17: counterLock is held only by a request inside getPassword, and
\* counterFileLock only by a saveCounter at its file operations; no step
\* changes both locks; a saveCounter waiting for counterFileLock goes on as
\* soon as that lock is free, a request waiting for counterLock as soon as
\* that lock is free, and the holder of counterFileLock can always go on:
\* no flow waits for one lock while it holds the other.
C17_LocksNeverNested ==
    /\ [](counterLock # 0 => req[counterLock].pc \in {"load", "store", "recv", "parked"})
    /\ [](counterFileLock = "signal" => sigPc = "io")
    /\ [][(counterFileLock' # counterFileLock /\ counterLock' # counterLock)
             => ~Running']_vars
    /\ [](Running =>
            /\ \A who \in {"periodic", "signal"} :
                  (AtLock(who) /\ counterFileLock = "free") => ENABLED SaveLock(who)
            /\ \A r \in DOMAIN req :
                  (req[r].pc = "lock" /\ counterLock = 0) => ENABLED GetLock(r)
            /\ counterFileLock # "free" => ENABLED SaveIO(counterFileLock, "ok"))

\* both locks are held, by different flows, and each has a flow waiting for
\* it
C17_BothLocksContended ==
    /\ Running
    /\ counterLock # 0
    /\ \E r \in DOMAIN req : req[r].pc = "lock"
    /\ counterFileLock = "periodic"
    /\ sigPc = "lock"

-----------------------------------------------------------------------------
(* Shutdown *)

\* handleSignals as the claim names its states
Coordinator ==
    CASE proc \in {"exited", "killed", "aborted"} -> "Terminating"
      [] sigPc \in {"save", "lock", "io", "exit"} -> "Flushing"
      [] OTHER -> "Running"

\* C18: once handleSignals waits for a signal, the coordinator goes
\* Running -> Flushing -> Terminating and never back; a process that has
\* terminated after a signal sent while handleSignals waited for one has
\* passed through Flushing, that is, it exited from handleSignals after its
\* saveCounter; and after Terminating no step changes the counter or the
\* file.  A failure of the listener (line 79) is no part of the claim and is
\* left out.
C18_RunningFlushingTerminating ==
    /\ [][\/ Coordinator' = Coordinator
          \/ sigPc \in {"off", "notify"}
          \/ proc' = "aborted"
          \/ Coordinator = "Running" /\ Coordinator' = "Flushing" /\ sigChan > 0
          \/ Coordinator = "Flushing" /\ Coordinator' = "Terminating"
                 /\ sigPc = "exit"]_vars
    /\ []((hist.sig # "none" /\ hist.sigAt = "wait" /\ ~Running)
              => proc \in {"exited", "aborted"})
    /\ [][~Running => (counter' = counter /\ file' = file)]_vars

-----------------------------------------------------------------------------
(* Read-only requests *)

\* the requests for a password
PasswordPaths == {"/", "/password.txt"}
\* slot r holds a request for anything else
ReadOnly(r) == req[r].pc # "idle" /\ req[r].path \notin PasswordPaths

\* C19: a request for /counter or for a path other than / and /password.txt
\* never enters getPassword, and its steps leave the counter, the passwords
\* channel, the file and both locks as they are; every counter++ and every
\* receive is a step of a request for / or /password.txt.
C19_OtherPathsReadOnly ==
    /\ [](\A r \in DOMAIN req :
            ReadOnly(r) => /\ req[r].pc = "respond"
                           /\ req[r].mine = 0 /\ req[r].took = 0 /\ req[r].pw = "")
    /\ [][\A r \in DOMAIN req :
            ((ReadOnly(r) \/ ReadOnly(r)') /\ req'[r] # req[r] /\ proc' = proc)
                => /\ counter' = counter
                   /\ passwords' = passwords
                   /\ file' = file
                   /\ counterLock' = counterLock
                   /\ counterFileLock' = counterFileLock
                   /\ hist' = hist]_vars
    /\ [][hist'.incs # hist.incs
            => \E r \in DOMAIN req : /\ req[r].path \in PasswordPaths
                                      /\ req[r].pc = "store" /\ req'[r].pc = "recv"]_vars
    /\ [][hist'.takes # hist.takes
            => \E r \in DOMAIN req : /\ req[r].path \in PasswordPaths
                                      /\ req[r].pc = "recv" /\ req'[r].pw # ""]_vars

\* /counter and a 404 are being answered while a request for a password
\* has been counted
C19_ReadOnlyAnswered ==
    /\ \E r, q \in DOMAIN req :
          /\ req[r].path = "/counter" /\ req[r].pc = "respond"
          /\ req[q].path = "/favicon.ico" /\ req[q].pc = "respond"
    /\ hist.incs > 0

-----------------------------------------------------------------------------
(* The file never runs ahead of the counter *)

\* the first multiple of 100 above the loaded counter
FirstHundred == ((hist.counter0 \div 100) + 1) * 100

\* C20: once the file (empty, or the decimal text of the counter) is
\* loaded, the value the file holds is at most the counter; every flush
\* writes the counter as it is when the flush runs; of two successive
\* successful flushes the second writes no less than the first; and a
\* periodic flush writes at least the multiple of 100 that started it.
C20_FileNeverAhead ==
    /\ []((counterFile /\ LoadDone) => /\ Load(file).err = NoErr
                                       /\ Load(file).val <= counter
                                       /\ Load(file).val >= hist.counter0)
    /\ []((Len(hist.flushes) = 2 /\ Flush(1).ok /\ Flush(2).ok)
             => Flush(1).val <= Flush(2).val)
    /\ [](\A i \in 1..Len(hist.flushes) :
             Flush(i).ok => Load(Flush(i).after) = [err |-> NoErr, val |-> Flush(i).val])
    /\ [][hist'.flushes # hist.flushes
            => /\ hist'.flushes[Len(hist'.flushes)].val = counter
               /\ counterFileLock = "periodic" => counter >= FirstHundred]_vars

\* a periodic flush started at 100 has written 101, and the shutdown flush
\* has written 101 after it
C20_PeriodicThenShutdown ==
    /\ hist.counter0 = 99 /\ counter = 101
    /\ hist.spawned = 1
    /\ Len(hist.flushes) = 2
    /\ Flush(1).ok /\ Flush(1).val = 101
    /\ Flush(2).ok /\ Flush(2).val = 101
    /\ sigPc = "exit"
    /\ file = "101"

====
